---- MODULE Spec2Model ----
(***************************************************************************)
(* Shared-memory channels and order runners of quant_modules.              *)
(*                                                                         *)
(*  - the request channel (write_order_request, _read_order_from_shm,      *)
(*    _clear_order_shm) and the two order runners (run_order_reader of     *)
(*    binance_ws_orders.py and of bybit_ws_orders.py): specification Spec  *)
(*  - the snapshot channel (Orderbook.stream_orderbook, read_snapshot):    *)
(*    specification SnapSpec                                               *)
(*                                                                         *)
(* Every load and store of a header field and every payload copy is one    *)
(* step; the processes interleave freely.                                  *)
(***************************************************************************)
EXTENDS Integers, Sequences, FiniteSets, TLC

\* ------------------------------------------------------------------ bounds
\* Capacity of the payload region, in cells (scaled down).
PAYLOAD_MAX == 6
\* Number of write_order_request calls the submitter makes, the one that left
\* its record in an already existing region included.
MaxWrites == 2
\* The same, where a record that a clear has wiped is followed up.
MaxLostWrites == 3
\* Number of concurrent read_snapshot callers.
NumReaders == 1
\* Number of snapshots the producer receives from the feed.
MaxSnaps == 2
\* Number of transports a session opens (create_connection calls that succeed).
MaxConns == 2
\* Number of order requests a session sends.
MaxReqs == 2
\* Number of messages that arrive while one _request waits.
MaxMsgs == 2

\* ------------------------------------------------------------ msgpack model
\* A cell of the payload region stands for one msgpack item: a map header
\* (MapHdr + number of entries) or one key/value entry (key code * KeyMul +
\* value code).  A zero-filled region holds the scalar 0 in every cell.
MapHdr == 1000
KeyMul == 100

None == "<None>"

Keys == <<"symbol", "side", "type", "quantity", "price", "orderType", "qty",
          "reduce_only", "position_side", "new_client_order_id", "time_in_force">>

Vals == <<"BTCUSDT", "BUY", "Sell", "MARKET", "Market", "LIMIT", "STOP",
          "0.001", "100.5", "">>

KeyCode(k) == CHOOSE i \in 1..Len(Keys) : Keys[i] = k
ValCode(v) == IF v = None THEN 0 ELSE CHOOSE i \in 1..Len(Vals) : Vals[i] = v
ValOf(c) == IF c = 0 THEN None ELSE Vals[c]

\* dict.get(key): the value, None when the key is missing.
Get(d, k) == IF k \in DOMAIN d THEN d[k] ELSE None

\* Python truthiness of a value read from an order dict.
Truthy(v) == v # None /\ v # ""

\* a or b
Or(a, b) == IF Truthy(a) THEN a ELSE b

\* str.upper() on the strings of the model.
Upper(v) == CASE v = "Sell" -> "SELL"
              [] v = "Market" -> "MARKET"
              [] OTHER -> v

\* The key codes of a dict, ascending.
RECURSIVE SortedCodes(_)
SortedCodes(S) ==
  IF S = {} THEN <<>>
  ELSE LET m == CHOOSE x \in S : \A y \in S : x <= y
       IN <<m>> \o SortedCodes(S \ {m})

\* msgpack.packb(order): map header, then one entry per key.
packb(d) ==
  LET codes == SortedCodes({KeyCode(k) : k \in DOMAIN d})
  IN <<MapHdr + Len(codes)>> \o
     [i \in 1..Len(codes) |-> codes[i] * KeyMul + ValCode(d[Keys[codes[i]]])]

\* msgpack.unpackb succeeds on exactly one complete object: a scalar alone, or
\* a map header followed by exactly as many entries as it announces
\* (fewer: incomplete input, more: ExtraData).
UnpackOk(data) ==
  /\ Len(data) >= 1
  /\ IF data[1] >= MapHdr
     THEN /\ Len(data) = 1 + (data[1] - MapHdr)
          /\ \A i \in 2..Len(data) : data[i] < MapHdr /\ data[i] \div KeyMul \in 1..Len(Keys)
     ELSE Len(data) = 1

IsMap(data) == UnpackOk(data) /\ data[1] >= MapHdr

\* The dict msgpack.unpackb returns for a map.
unpackb(data) ==
  LET ks == {Keys[data[i] \div KeyMul] : i \in 2..Len(data)}
  IN [k \in ks |->
        LET i == CHOOSE j \in 2..Len(data) : Keys[data[j] \div KeyMul] = k
        IN ValOf(data[i] % KeyMul)]

\* ------------------------------------------------------------ order records
MarketOrder == [symbol |-> "BTCUSDT", side |-> "BUY", type |-> "MARKET", quantity |-> "0.001"]
BybitOrder == [symbol |-> "BTCUSDT", side |-> "Sell", orderType |-> "Market", qty |-> "0.001"]
LimitOrder == [symbol |-> "BTCUSDT", side |-> "BUY", type |-> "LIMIT", quantity |-> "0.001",
               price |-> "100.5"]
LimitNoPrice == [symbol |-> "BTCUSDT", side |-> "BUY", type |-> "LIMIT", quantity |-> "0.001"]
NoQuantity == [symbol |-> "BTCUSDT", side |-> "BUY", type |-> "MARKET"]
NoSide == [symbol |-> "BTCUSDT", type |-> "MARKET", quantity |-> "0.001"]
StopOrder == [symbol |-> "BTCUSDT", side |-> "BUY", type |-> "STOP", quantity |-> "0.001"]
\* A record whose serialized size exceeds the payload region.
BigOrder == [symbol |-> "BTCUSDT", side |-> "BUY", type |-> "LIMIT", quantity |-> "0.001",
             price |-> "100.5", reduce_only |-> "", position_side |-> None,
             new_client_order_id |-> None, time_in_force |-> None]

Orders == {MarketOrder, BybitOrder, LimitOrder, LimitNoPrice, NoQuantity, NoSide,
           StopOrder, BigOrder}

\* What an already existing region may hold when the runner starts: the
\* record of a completed write.
PreOrders == {MarketOrder}


\* ------------------------------------------------------------------- state
VARIABLES
  exchange,      \* which module's run_order_reader runs: "binance" or "bybit"
  shmExists,     \* the named shared-memory region exists
  version,       \* request channel: 8-byte version at VERSION_OFFSET
  size,          \* request channel: 4-byte payload_size at SIZE_OFFSET
  payload,       \* request channel: payload region, PAYLOAD_MAX cells
  wpc,           \* submitter: position inside write_order_request
  wOrder,        \* submitter: the order of the call in progress
  wId,           \* number of write_order_request calls that passed the size check
  writes,        \* number of write_order_request calls made
  wRaised,       \* the last write_order_request call raised ValueError
  rpc,           \* runner: position inside run_order_reader
  after,         \* runner: where control goes when _clear_order_shm returns
  v1,            \* _read_order_from_shm: local v1
  rsize,         \* _read_order_from_shm: local size
  data,          \* _read_order_from_shm: local data
  order,         \* run_order_reader: local order
  ws,            \* client._ws: "none" or "open"
  alive,         \* the transport behind client._ws is still usable
  err,           \* the exception caught at "except Exception as e"
  clients,       \* number of ...WSClient objects the runner has constructed
                 \* (0, 1, "2 or more")
  \* history variables
  sizeBy,        \* the write (0: zero fill or clear) that stored payload_size
  payloadBy,     \* the write (0: zero fill) that stored the payload last
  sizeFrom,      \* the write whose payload_size the read in progress loaded
  dataFrom,      \* the write whose payload the read in progress copied
  lastWritten,   \* the order of the last completed write_order_request
  storeSinceV1,  \* a write_order_request store happened since the v1 load
  quietAtV1,     \* quiet held at the v1 load of the read in progress
  quiet,         \* "yes": a write ran to completion with no clear store inside it and
                 \* no store has followed; "writing": such a write is under way
  cleared,       \* a clear has completed and no write has completed since
  rd,            \* the _read_order_from_shm return just made, with what held then
  src,           \* the write whose payload the order being processed was read from
  clears,        \* _clear_order_shm runs since the current record passed validation
  storeSinceClear, \* a write_order_request store happened since the last clear began
  fresh,         \* the last clear has returned and the runner has not polled since
  placed,        \* the order place_market_order / place_limit_order was last called with
  sendCount,     \* order messages sent to the exchange (n) with the record of write w,
                 \* the write whose record was sent last
  dropped,       \* the write whose record failed validation last (0: none)
                 \* (a write replaces the payload of the one before it, so the runner
                 \* never meets the record of an earlier write after that of a later one)
  old,           \* the last write that had completed when the runner attached to an
                 \* already existing region (0: the runner created the region)
  wiped,         \* the last write (w, with its record rec) that completed while the
                 \* Binance runner was between the read of an earlier record and the
                 \* end of the clear that follows it (w = 0: none)
  \* snapshot channel
  sVersion,      \* snapshot channel: version
  sSize,         \* snapshot channel: payload_size
  sPayload,      \* snapshot channel: payload region
  sSizeBy,       \* history: the producer write that stored payload_size
  sPayloadBy,    \* history: the producer write that stored the payload last
  ppc,           \* producer: position inside stream_orderbook
  pVersion,      \* producer: self._version
  pSnap,         \* producer: the snapshot being written
  snaps,         \* number of snapshots the feed has delivered
  rdr,           \* per read_snapshot caller: position and locals
  got,           \* per caller: the read_snapshot return just made
  \* one ...FuturesWSClient session, called by one thread
  cWs,           \* self._ws: 0 for None, else the number of the transport
  conns,         \* number of transports opened so far
  up,            \* the transport behind self._ws is usable
  authed,        \* the exchange has accepted the handshake on that transport
  spc,           \* "idle", or "wait" inside the receive loop of _request
  reqs,          \* number of order requests sent; the last one's id is reqs
  msgs,          \* number of messages received by the _request in progress
  late,          \* time.time() has reached the deadline of the _request in progress
  call           \* history: the last call of connect / close / _request

chanVars == <<shmExists, version, size, payload, sizeBy, payloadBy>>
writerVars == <<wpc, wOrder, wId, writes, wRaised, lastWritten>>
readVars == <<v1, rsize, data, sizeFrom, dataFrom, storeSinceV1, quietAtV1, rd>>
sessionVars == <<ws, alive, err, clients>>
runVars == <<rpc, after, order, src, clears, fresh, placed, sendCount, dropped>>
raceVars == <<quiet, cleared, storeSinceClear>>
lostVars == <<old, wiped>>
reqVars == <<exchange, chanVars, writerVars, readVars, sessionVars, runVars, raceVars,
            lostVars>>
snapChanVars == <<sVersion, sSize, sPayload, sSizeBy, sPayloadBy>>
prodVars == <<ppc, pVersion, pSnap, snaps>>
snapVars == <<snapChanVars, prodVars, rdr, got>>
cliVars == <<cWs, conns, up, authed, spc, reqs, msgs, late, call>>

NoOrder == <<>>
NoWipe == [w |-> 0, rec |-> NoOrder]
NoErr == [kind |-> "none", closed |-> FALSE]
NoRead == [res |-> "no", torn |-> FALSE, afterClear |-> FALSE, quiet |-> FALSE,
           sizeFrom |-> 0, dataFrom |-> 0]

ZeroFill == [i \in 1..PAYLOAD_MAX |-> 0]

\* The slice one byte short.
StoreBytes_Short(buf, p) == [i \in 1..PAYLOAD_MAX |-> IF i < Len(p) THEN p[i] ELSE buf[i]]

\* buf[PAYLOAD_OFFSET : PAYLOAD_OFFSET + len(p)] = p
StoreBytes(buf, p) == [i \in 1..PAYLOAD_MAX |-> IF i <= Len(p) THEN p[i] ELSE buf[i]]

\* bytes(buf[PAYLOAD_OFFSET : PAYLOAD_OFFSET + n])
CopyBytes(buf, n) == [i \in 1..n |-> buf[i]]

\* Counting 0, 1, "2 or more".
Bump(n) == IF n < 2 THEN n + 1 ELSE n

\* ------------------------------------------ run_order_reader: validation
\* The fields run_order_reader takes from the record, per exchange.
OrderType(ex, o) ==
  IF ex = "binance"
  THEN Upper(Or(Get(o, "type"), ""))
  ELSE Upper(Or(Or(Get(o, "orderType"), Get(o, "type")), ""))

Quantity(ex, o) ==
  IF ex = "binance"
  THEN Get(o, "quantity")
  ELSE Or(Get(o, "qty"), Get(o, "quantity"))

Valid_NoQuantityTest(ex, o) ==
  IF ex = "binance"
  THEN /\ Truthy(Get(o, "symbol"))
       /\ Truthy(Get(o, "side"))
       /\ OrderType(ex, o) \in {"MARKET", "LIMIT"}
  ELSE /\ Truthy(Get(o, "symbol"))
       /\ OrderType(ex, o) \in {"MARKET", "LIMIT"}

\* The negation of the "if not symbol or ..." test that skips a record.
Valid(ex, o) ==
  IF ex = "binance"
  THEN /\ Truthy(Get(o, "symbol"))
       /\ Truthy(Get(o, "side"))
       /\ Truthy(Quantity(ex, o))
       /\ OrderType(ex, o) \in {"MARKET", "LIMIT"}
  ELSE /\ Truthy(Get(o, "symbol"))
       /\ Truthy(Quantity(ex, o))
       /\ OrderType(ex, o) \in {"MARKET", "LIMIT"}

\* ---------------------------------------------------- write_order_request
\* payload = msgpack.packb(order); the size check; attaching the region.  The
\* submitter makes at most n calls.
W_CallUpTo(n, o) ==
  /\ wpc = "idle"
  /\ writes < n
  /\ shmExists
  /\ writes' = writes + 1
  /\ IF Len(packb(o)) > PAYLOAD_MAX
     THEN /\ wRaised' = TRUE
          /\ UNCHANGED <<wpc, wOrder, wId>>
     ELSE /\ wRaised' = FALSE
          /\ wpc' = "version1"
          /\ wOrder' = o
          /\ wId' = wId + 1
  /\ UNCHANGED <<cliVars, snapVars, lostVars, exchange, chanVars, lastWritten, readVars, sessionVars, runVars, raceVars>>

\* The size check left out.
W_Call_NoSizeCheck(o) ==
  /\ wpc = "idle"
  /\ writes < MaxWrites
  /\ shmExists
  /\ writes' = writes + 1
  /\ wRaised' = FALSE
  /\ wpc' = "version1"
  /\ wOrder' = o
  /\ wId' = wId + 1
  /\ UNCHANGED <<cliVars, snapVars, lostVars, exchange, chanVars, lastWritten, readVars, sessionVars, runVars, raceVars>>

\* payload = msgpack.packb(order); the size check; attaching the region.
W_Call(o) == W_CallUpTo(MaxWrites, o)

\* struct.pack_into("q", shm.buf, VERSION_OFFSET, 1)
W_StoreVersion1 ==
  /\ wpc = "version1"
  /\ version' = 1
  /\ wpc' = "size"
  /\ storeSinceV1' = TRUE
  /\ storeSinceClear' = TRUE
  /\ quiet' = "writing"
  /\ UNCHANGED <<cliVars, snapVars, lostVars, exchange, shmExists, size, payload, sizeBy, payloadBy, wOrder, wId, writes,
                 wRaised, lastWritten, v1, rsize, data, sizeFrom, dataFrom, quietAtV1, rd,
                 sessionVars, runVars, cleared>>

\* struct.pack_into("i", shm.buf, SIZE_OFFSET, len(payload))
W_StoreSize ==
  /\ wpc = "size"
  /\ size' = Len(packb(wOrder))
  /\ sizeBy' = wId
  /\ wpc' = "payload"
  /\ storeSinceV1' = TRUE
  /\ storeSinceClear' = TRUE
  /\ quiet' = IF quiet = "writing" THEN "writing" ELSE "no"
  /\ UNCHANGED <<cliVars, snapVars, lostVars, exchange, shmExists, version, payload, payloadBy, wOrder, wId, writes,
                 wRaised, lastWritten, v1, rsize, data, sizeFrom, dataFrom, quietAtV1, rd,
                 sessionVars, runVars, cleared>>

\* shm.buf[PAYLOAD_OFFSET : PAYLOAD_OFFSET + len(payload)] = payload
W_StorePayload ==
  /\ wpc = "payload"
  /\ payload' = StoreBytes(payload, packb(wOrder))
  /\ payloadBy' = wId
  /\ wpc' = "version2"
  /\ storeSinceV1' = TRUE
  /\ storeSinceClear' = TRUE
  /\ quiet' = IF quiet = "writing" THEN "writing" ELSE "no"
  /\ UNCHANGED <<cliVars, snapVars, lostVars, exchange, shmExists, version, size, sizeBy, wOrder, wId, writes,
                 wRaised, lastWritten, v1, rsize, data, sizeFrom, dataFrom, quietAtV1, rd,
                 sessionVars, runVars, cleared>>

\* The Binance runner holds a record it has read and will clear the channel
\* before it polls again: the record is valid and on its way through the try
\* block and "finally: _clear_order_shm(shm)", or that clear is under way.
InWindow ==
  /\ exchange = "binance"
  /\ src # 0
  /\ \/ rpc = "got" /\ Valid(exchange, order)
     \/ rpc \in {"place", "except"}
     \/ rpc \in {"clear_version", "clear_size"} /\ after # "connect"

\* struct.pack_into("q", shm.buf, VERSION_OFFSET, 2); shm.close()
W_StoreVersion2 ==
  /\ wpc = "version2"
  /\ version' = 2
  /\ wpc' = "idle"
  /\ lastWritten' = wOrder
  /\ wOrder' = NoOrder
  /\ storeSinceV1' = TRUE
  /\ storeSinceClear' = TRUE
  /\ quiet' = IF quiet = "writing" THEN "yes" ELSE "no"
  /\ cleared' = FALSE
  /\ wiped' = IF InWindow /\ src < wId THEN [w |-> wId, rec |-> wOrder] ELSE wiped
  /\ UNCHANGED <<cliVars, snapVars, old, exchange, shmExists, size, payload, sizeBy, payloadBy, wId, writes,
                 wRaised, v1, rsize, data, sizeFrom, dataFrom, quietAtV1, rd,
                 sessionVars, runVars>>

\* -------------------------------------------------------- run_order_reader
\* Ways client.connect() ends: the transport opens (and, for Bybit, the auth
\* handshake succeeds), or it raises.
ConnectOutcomes(ex) ==
  IF ex = "binance" THEN {"ok", "refused"} ELSE {"ok", "refused", "auth_failed"}

\* Ways client._request ends.  sent: the order message went out on the
\* transport; closed: the text of the exception contains "closed"; alive: the
\* transport is usable afterwards.
RequestOutcomes(w, a) ==
  IF w = "none"
  THEN {[kind |-> "not_connected", sent |-> FALSE, closed |-> FALSE, alive |-> a]}
  ELSE {[kind |-> "transport", sent |-> FALSE, closed |-> c, alive |-> FALSE] : c \in BOOLEAN}
       \cup
       (IF a
        THEN {[kind |-> "ok", sent |-> TRUE, closed |-> FALSE, alive |-> TRUE],
              [kind |-> "timeout", sent |-> TRUE, closed |-> FALSE, alive |-> TRUE]}
             \cup {[kind |-> "rejected", sent |-> TRUE, closed |-> c, alive |-> TRUE] : c \in BOOLEAN}
             \cup {[kind |-> "transport", sent |-> TRUE, closed |-> c, alive |-> FALSE] : c \in BOOLEAN}
        ELSE {})

\* Where "continue" leads for a LIMIT record without price: through
\* "finally: _clear_order_shm(shm)" in the Binance runner, straight back to the
\* poll in the Bybit runner (its try block has no finally).
AfterNoPrice_NoFinally(ex) == "read_v1"

AfterNoPrice(ex) == IF ex = "binance" THEN "clear_version" ELSE "read_v1"

\* What the runner does with the value _read_order_from_shm hands it.
ReadKind(d) ==
  IF ~UnpackOk(d) THEN "raise"
  ELSE IF d[1] < MapHdr THEN "scalar"
  ELSE "record"

\* SharedMemory(create=True), or attaching when the region exists already.
R_OpenShm ==
  /\ rpc = "open"
  /\ rpc' = "clear_version"
  /\ after' = "connect"
  /\ old' = IF ~shmExists THEN 0 ELSE IF wpc = "idle" THEN wId ELSE wId - 1
  /\ IF shmExists
     THEN UNCHANGED chanVars
     ELSE /\ shmExists' = TRUE
          /\ version' = 0
          /\ size' = 0
          /\ payload' = ZeroFill
          /\ sizeBy' = 0
          /\ payloadBy' = 0
  /\ UNCHANGED <<cliVars, snapVars, wiped, exchange, writerVars, readVars, sessionVars, order, src, clears, fresh,
                 placed, sendCount, dropped, raceVars>>

\* _clear_order_shm: struct.pack_into("q", shm.buf, VERSION_OFFSET, 0)
R_ClearVersion ==
  /\ rpc = "clear_version"
  /\ version' = 0
  /\ rpc' = "clear_size"
  /\ quiet' = "no"
  /\ storeSinceClear' = FALSE
  /\ UNCHANGED <<cliVars, snapVars, lostVars, exchange, shmExists, size, payload, sizeBy, payloadBy, writerVars, readVars,
                 sessionVars, after, order, src, clears, fresh, placed, sendCount, dropped,
                 cleared>>

\* _clear_order_shm: struct.pack_into("i", shm.buf, SIZE_OFFSET, 0), and the
\* return to the caller: startup goes on to connect, the loop sleeps and polls,
\* a pending exception leaves the loop through "finally: client.close()".
R_ClearSize ==
  /\ rpc = "clear_size"
  /\ size' = 0
  /\ sizeBy' = 0
  /\ quiet' = "no"
  /\ cleared' = TRUE
  /\ clears' = IF clears >= 0 THEN Bump(clears) ELSE clears
  /\ fresh' = TRUE
  /\ rpc' = CASE after = "connect" -> "connect"
              [] after = "poll" -> "read_v1"
              [] after = "raise" -> "crashed"
  /\ ws' = IF after = "raise" THEN "none" ELSE ws
  /\ order' = NoOrder
  /\ src' = 0
  /\ UNCHANGED <<cliVars, snapVars, lostVars, exchange, shmExists, version, payload, payloadBy, writerVars, readVars,
                 alive, err, clients, after, placed, sendCount, dropped, storeSinceClear>>

\* client = ...WSClient(); client.connect(), before the loop's try block.
R_Connect ==
  /\ rpc = "connect"
  /\ \E out \in ConnectOutcomes(exchange) :
       /\ rpc' = IF out = "ok" THEN "read_v1" ELSE "crashed"
       /\ ws' = IF out = "refused" THEN "none" ELSE "open"
       /\ alive' = (out # "refused")
  /\ clients' = Bump(clients)
  /\ UNCHANGED <<cliVars, snapVars, lostVars, exchange, chanVars, writerVars, readVars, err, after, order, src, clears,
                 fresh, placed, sendCount, dropped, raceVars>>

\* ---------------------------------------------------- _read_order_from_shm
\* What one return of _read_order_from_shm is recorded as.
ReadReturn(res) ==
  [res |-> res, torn |-> storeSinceV1, afterClear |-> cleared,
   quiet |-> quietAtV1 /\ ~storeSinceV1, sizeFrom |-> sizeFrom, dataFrom |-> dataFrom]

\* v1 = struct.unpack_from("q", buf, VERSION_OFFSET)[0]; "if v1 % 2 != 0: return None"
\* (the runner then sleeps and polls again).
R_ReadV1 ==
  /\ rpc = "read_v1"
  /\ fresh' = FALSE
  /\ IF version % 2 # 0
     THEN /\ rd' = [NoRead EXCEPT !.res = "none", !.afterClear = cleared,
                                 !.quiet = (quiet = "yes")]
          /\ UNCHANGED <<rpc, v1, quietAtV1>>
     ELSE /\ v1' = version
          /\ rpc' = "read_size"
          /\ quietAtV1' = (quiet = "yes")
          /\ rd' = NoRead
  /\ storeSinceV1' = FALSE
  /\ UNCHANGED <<cliVars, snapVars, lostVars, exchange, chanVars, writerVars, sessionVars, after, order, src, clears,
                 placed, sendCount, dropped, raceVars, rsize, data, sizeFrom, dataFrom>>

\* size = struct.unpack_from("i", buf, SIZE_OFFSET)[0];
\* "if not (0 < size <= PAYLOAD_MAX): return None"
R_ReadSize ==
  /\ rpc = "read_size"
  /\ IF ~(0 < size /\ size <= PAYLOAD_MAX)
     THEN /\ rd' = [ReadReturn("none") EXCEPT !.sizeFrom = sizeBy]
          /\ rpc' = "read_v1"
          /\ v1' = 0
          /\ quietAtV1' = FALSE
          /\ storeSinceV1' = FALSE
          /\ UNCHANGED <<rsize, sizeFrom>>
     ELSE /\ rsize' = size
          /\ sizeFrom' = sizeBy
          /\ rpc' = "read_data"
          /\ UNCHANGED <<v1, rd, quietAtV1, storeSinceV1>>
  /\ UNCHANGED <<cliVars, snapVars, lostVars, exchange, chanVars, writerVars, sessionVars, after, order, src, clears,
                 fresh, placed, sendCount, dropped, raceVars, data, dataFrom>>

\* data = bytes(buf[PAYLOAD_OFFSET : PAYLOAD_OFFSET + size])
R_ReadData ==
  /\ rpc = "read_data"
  /\ data' = CopyBytes(payload, rsize)
  /\ dataFrom' = payloadBy
  /\ rpc' = "read_v2"
  /\ UNCHANGED <<cliVars, snapVars, lostVars, exchange, chanVars, writerVars, sessionVars, after, order, src, clears,
                 fresh, placed, sendCount, dropped, raceVars, v1, rsize, sizeFrom,
                 storeSinceV1, quietAtV1, rd>>

\* v2 = struct.unpack_from("q", buf, VERSION_OFFSET)[0];
\* "if v1 != v2 or v2 % 2 != 0: return None"; return msgpack.unpackb(data),
\* and the runner's "if not order: sleep, continue".  An exception of unpackb,
\* or of order.get on a value that is no dict, leaves the loop through
\* "finally: client.close()".
R_ReadV2 ==
  /\ rpc = "read_v2"
  /\ LET res == IF v1 # version \/ version % 2 # 0 THEN "none" ELSE ReadKind(data)
         o == IF res = "record" THEN unpackb(data) ELSE NoOrder
         raised == res = "raise" \/ (res = "scalar" /\ data[1] # 0)
         taken == res = "record" /\ o # NoOrder
     IN /\ rd' = ReadReturn(res)
        /\ order' = o
        /\ src' = IF taken THEN dataFrom ELSE 0
        /\ rpc' = IF raised THEN "crashed" ELSE IF taken THEN "got" ELSE "read_v1"
        /\ ws' = IF raised THEN "none" ELSE ws
  /\ v1' = 0
  /\ rsize' = 0
  /\ data' = <<>>
  /\ sizeFrom' = 0
  /\ dataFrom' = 0
  /\ storeSinceV1' = FALSE
  /\ quietAtV1' = FALSE
  /\ UNCHANGED <<cliVars, snapVars, lostVars, exchange, chanVars, writerVars, alive, err, clients, after, clears, fresh, placed,
                 sendCount, dropped, raceVars>>

\* ------------------------------------------- run_order_reader: one record
\* symbol = order.get("symbol") ... and the test that skips an invalid record
\* ("time.sleep(0.05); continue").
R_Validate ==
  /\ rpc = "got"
  /\ rd' = NoRead
  /\ IF Valid(exchange, order)
     THEN /\ rpc' = "place"
          /\ clears' = 0
          /\ UNCHANGED <<dropped, order, src>>
     ELSE /\ rpc' = "read_v1"
          /\ dropped' = src
          /\ order' = NoOrder
          /\ src' = 0
          /\ UNCHANGED clears
  /\ UNCHANGED <<cliVars, snapVars, lostVars, exchange, chanVars, writerVars, v1, rsize, data, sizeFrom, dataFrom,
                 storeSinceV1, quietAtV1, sessionVars, after, fresh, placed, sendCount,
                 raceVars>>

\* The try block: place_market_order, or the price test and place_limit_order.
\* Binance runs _clear_order_shm in "finally", also on the "continue" of a
\* LIMIT record without price; Bybit calls it as the last statement of the try
\* block, which an exception or the "continue" skips.
R_Place ==
  /\ rpc = "place"
  /\ IF OrderType(exchange, order) = "LIMIT" /\ ~Truthy(Get(order, "price"))
     THEN /\ rpc' = AfterNoPrice(exchange)
          /\ after' = "poll"
          /\ order' = IF AfterNoPrice(exchange) = "read_v1" THEN NoOrder ELSE order
          /\ src' = IF AfterNoPrice(exchange) = "read_v1" THEN 0 ELSE src
          /\ UNCHANGED <<placed, sendCount, alive, err>>
     ELSE \E out \in RequestOutcomes(ws, alive) :
            /\ placed' = order
            /\ sendCount' = IF ~out.sent THEN sendCount
                            ELSE IF sendCount.w = src
                                 THEN [sendCount EXCEPT !.n = Bump(@)]
                                 ELSE [w |-> src, n |-> 1]
            /\ alive' = out.alive
            /\ IF out.kind = "ok"
               THEN /\ rpc' = "clear_version"
                    /\ after' = "poll"
                    /\ err' = NoErr
               ELSE /\ rpc' = "except"
                    /\ err' = [kind |-> out.kind, closed |-> out.closed]
                    /\ UNCHANGED after
            /\ UNCHANGED <<order, src>>
  /\ UNCHANGED <<cliVars, snapVars, lostVars, exchange, chanVars, writerVars, readVars, ws, clients, clears, fresh, dropped,
                 raceVars>>

\* "except Exception as e": Bybit prints and polls again.  Binance prints and,
\* when "closed" is in the text, closes the client and connects a new one; an
\* exception of that connect() passes through "finally: _clear_order_shm(shm)"
\* and leaves the loop.
R_Except ==
  /\ rpc = "except"
  /\ err' = NoErr
  /\ IF exchange = "bybit"
     THEN /\ rpc' = "read_v1"
          /\ order' = NoOrder
          /\ src' = 0
          /\ UNCHANGED <<ws, alive, clients, after>>
     ELSE /\ rpc' = "clear_version"
          /\ UNCHANGED <<order, src>>
          /\ IF err.closed
             THEN \E out \in ConnectOutcomes(exchange) :
                    /\ ws' = IF out = "ok" THEN "open" ELSE "none"
                    /\ alive' = (out = "ok")
                    /\ clients' = Bump(clients)
                    /\ after' = IF out = "ok" THEN "poll" ELSE "raise"
             ELSE /\ after' = "poll"
                  /\ UNCHANGED <<ws, alive, clients>>
  /\ UNCHANGED <<cliVars, snapVars, lostVars, exchange, chanVars, writerVars, readVars, clears, fresh, placed,
                 sendCount, dropped, raceVars>>

\* --------------------------------------------------------- snapshot model
\* packb({'bids': ..., 'asks': ..., 'ts': ...}): the map header, the bids
\* array (header ArrHdr + length, then one cell per level), the asks array and
\* the timestamp.
ArrHdr == 500

SnapPack(s) ==
  <<MapHdr + 3, ArrHdr + Len(s.bids)>> \o s.bids \o <<ArrHdr + Len(s.asks)>> \o s.asks
    \o <<s.ts>>

IsArr(c) == c >= ArrHdr /\ c < MapHdr

\* unpackb succeeds on exactly one complete object.
SnapUnpackOk(d) ==
  /\ Len(d) >= 4
  /\ d[1] = MapHdr + 3
  /\ IsArr(d[2])
  /\ LET nb == d[2] - ArrHdr
     IN /\ Len(d) >= nb + 4
        /\ \A i \in 3..(2 + nb) : d[i] < ArrHdr
        /\ IsArr(d[nb + 3])
        /\ LET na == d[nb + 3] - ArrHdr
           IN /\ Len(d) = nb + na + 4
              /\ \A i \in (nb + 4)..Len(d) : d[i] < ArrHdr

SnapUnpack(d) ==
  LET nb == d[2] - ArrHdr
      na == d[nb + 3] - ArrHdr
  IN [bids |-> [i \in 1..nb |-> d[2 + i]],
      asks |-> [i \in 1..na |-> d[nb + 3 + i]],
      ts |-> d[Len(d)]]

\* What the feed delivers: books of different depths and timestamps.
Snapshots ==
  {[bids |-> <<>>, asks |-> <<>>, ts |-> 1],
   [bids |-> <<10>>, asks |-> <<>>, ts |-> 2],
   [bids |-> <<10>>, asks |-> <<11>>, ts |-> 3],
   [bids |-> <<12>>, asks |-> <<13>>, ts |-> 4],
   [bids |-> <<10, 9, 8>>, asks |-> <<11, 12, 13>>, ts |-> 5]}

NoSnap == [bids |-> <<>>, asks |-> <<>>, ts |-> 0]
NoBy == [id |-> 0, snap |-> NoSnap]
Readers == 1..NumReaders
IdleReader == [pc |-> "v1", v1 |-> 0, size |-> 0, data |-> <<>>, sizeFrom |-> NoBy,
               dataFrom |-> NoBy]
\* at: the number of snapshots the feed had delivered when the read returned.
NoGot == [res |-> "no", sizeFrom |-> NoBy, dataFrom |-> NoBy, snap |-> NoSnap, at |-> 0]

\* ------------------------------------------- Orderbook.stream_orderbook
\* The test of the serialized size left out.
P_Watch_NoSizeTest(s) ==
  /\ ppc = "watch"
  /\ snaps < MaxSnaps
  /\ snaps' = snaps + 1
  /\ ppc' = "version_odd"
  /\ pSnap' = s
  /\ UNCHANGED <<cliVars, reqVars, snapChanVars, pVersion, rdr, got>>

\* ob = await watch_order_book(...); payload = msgpack.packb(...); the test
\* "if self._shm and len(payload) <= PAYLOAD_MAX" (a snapshot that does not fit
\* is not written).
P_Watch(s) ==
  /\ ppc = "watch"
  /\ snaps < MaxSnaps
  /\ snaps' = snaps + 1
  /\ IF Len(SnapPack(s)) <= PAYLOAD_MAX
     THEN /\ ppc' = "version_odd"
          /\ pSnap' = s
     ELSE UNCHANGED <<ppc, pSnap>>
  /\ UNCHANGED <<cliVars, reqVars, snapChanVars, pVersion, rdr, got>>

\* The first version store left out: only self._version += 1.
P_StoreVersionOdd_NoStore ==
  /\ ppc = "version_odd"
  /\ pVersion' = pVersion + 1
  /\ ppc' = "size"
  /\ UNCHANGED <<cliVars, reqVars, snapChanVars, pSnap, snaps, rdr, got>>

\* self._version += 1; struct.pack_into('q', buf, VERSION_OFFSET, self._version)
P_StoreVersionOdd ==
  /\ ppc = "version_odd"
  /\ pVersion' = pVersion + 1
  /\ sVersion' = pVersion + 1
  /\ ppc' = "size"
  /\ UNCHANGED <<cliVars, reqVars, sSize, sPayload, sSizeBy, sPayloadBy, pSnap, snaps, rdr, got>>

\* struct.pack_into('i', buf, SIZE_OFFSET, len(payload))
P_StoreSize ==
  /\ ppc = "size"
  /\ sSize' = Len(SnapPack(pSnap))
  /\ sSizeBy' = [id |-> snaps, snap |-> pSnap]
  /\ ppc' = "payload"
  /\ UNCHANGED <<cliVars, reqVars, sVersion, sPayload, sPayloadBy, pVersion, pSnap, snaps, rdr, got>>

\* buf[PAYLOAD_OFFSET:PAYLOAD_OFFSET + len(payload)] = payload
P_StorePayload ==
  /\ ppc = "payload"
  /\ sPayload' = StoreBytes(sPayload, SnapPack(pSnap))
  /\ sPayloadBy' = [id |-> snaps, snap |-> pSnap]
  /\ ppc' = "version_even"
  /\ UNCHANGED <<cliVars, reqVars, sVersion, sSize, sSizeBy, pVersion, pSnap, snaps, rdr, got>>

\* self._version += 1; struct.pack_into('q', buf, VERSION_OFFSET, self._version)
P_StoreVersionEven ==
  /\ ppc = "version_even"
  /\ pVersion' = pVersion + 1
  /\ sVersion' = pVersion + 1
  /\ ppc' = "watch"
  /\ pSnap' = NoSnap
  /\ UNCHANGED <<cliVars, reqVars, sSize, sPayload, sSizeBy, sPayloadBy, snaps, rdr, got>>

\* ------------------------------------------------------------ read_snapshot
\* v1 = struct.unpack_from('q', buf, VERSION_OFFSET)[0]; "if v1 % 2 == 1: continue"
S_ReadV1(r) ==
  /\ rdr[r].pc = "v1"
  /\ got' = [got EXCEPT ![r] = NoGot]
  /\ IF sVersion % 2 = 1
     THEN UNCHANGED rdr
     ELSE rdr' = [rdr EXCEPT ![r].v1 = sVersion, ![r].pc = "size"]
  /\ UNCHANGED <<cliVars, reqVars, snapChanVars, prodVars>>

\* size = struct.unpack_from('i', buf, SIZE_OFFSET)[0]
S_ReadSize(r) ==
  /\ rdr[r].pc = "size"
  /\ rdr' = [rdr EXCEPT ![r].size = sSize, ![r].sizeFrom = sSizeBy, ![r].pc = "data"]
  /\ UNCHANGED <<cliVars, reqVars, snapChanVars, prodVars, got>>

\* data = bytes(buf[PAYLOAD_OFFSET:PAYLOAD_OFFSET + size])
S_ReadData(r) ==
  /\ rdr[r].pc = "data"
  /\ rdr' = [rdr EXCEPT ![r].data = CopyBytes(sPayload, rdr[r].size),
                        ![r].dataFrom = sPayloadBy, ![r].pc = "v2"]
  /\ UNCHANGED <<cliVars, reqVars, snapChanVars, prodVars, got>>

\* v2 = struct.unpack_from('q', buf, VERSION_OFFSET)[0];
\* "if v1 == v2 and v2 % 2 == 0: return msgpack.unpackb(data)", else the loop
\* starts over.  The caller (StrategyBase.run) calls again after a return; an
\* exception of unpackb ends it.
S_ReadV2(r) ==
  /\ rdr[r].pc = "v2"
  /\ IF rdr[r].v1 = sVersion /\ sVersion % 2 = 0
     THEN IF SnapUnpackOk(rdr[r].data)
          THEN /\ got' = [got EXCEPT ![r] = [res |-> "snapshot",
                                             sizeFrom |-> rdr[r].sizeFrom,
                                             dataFrom |-> rdr[r].dataFrom,
                                             snap |-> SnapUnpack(rdr[r].data),
                                             at |-> snaps]]
               /\ rdr' = [rdr EXCEPT ![r] = IdleReader]
          ELSE /\ got' = [got EXCEPT ![r] = [NoGot EXCEPT !.res = "raise", !.at = snaps]]
               /\ rdr' = [rdr EXCEPT ![r] = [IdleReader EXCEPT !.pc = "crashed"]]
     ELSE /\ rdr' = [rdr EXCEPT ![r] = IdleReader]
          /\ UNCHANGED got
  /\ UNCHANGED <<cliVars, reqVars, snapChanVars, prodVars>>

\* ------------------------------------------------------ session clients
\* BinanceFuturesWSClient and BybitFuturesWSClient, as one thread calls them.
\* A message that arrives is a JSON object or a text that is no JSON; id is
\* its "id" / "reqId" (0: it has none), ok its success status ("status" == 200,
\* "retCode" == 0).
NoMsg == [json |-> FALSE, id |-> 0, ok |-> FALSE, none |-> TRUE]
Messages == {[json |-> j, id |-> i, ok |-> k, none |-> FALSE] :
               j \in BOOLEAN, i \in 0..MaxReqs, k \in BOOLEAN}

\* What the last call was and did.  op: the method; res: how it ended
\* ("pending": _request waits); ws, wasAuthed: self._ws and authed when it was
\* called; opened: transports it opened; sends: messages it sent; msg: the last
\* message its recv() returned.
NoCall == [op |-> "none", res |-> "none", ws |-> 0, wasAuthed |-> FALSE, opened |-> 0,
           sends |-> 0, msg |-> NoMsg]

Called(op) == [NoCall EXCEPT !.op = op, !.ws = cWs, !.wasAuthed = authed]

\* Ways connect() goes once self._ws is None: create_connection raises
\* ("refused"); it succeeds and, in the Bybit client, the auth message is sent
\* and its acknowledgement read: send raises, recv raises, the acknowledgement
\* is no JSON, it carries retCode != 0, or retCode == 0.
HandshakeOutcomes(ex) ==
  IF ex = "binance" THEN {"ok", "refused"}
  ELSE {"ok", "refused", "send_failed", "recv_failed", "bad_ack", "auth_rejected"}

\* The test "if self._ws is not None: return" left out.
Sess_Connect_NoCheck ==
  /\ spc = "idle"
  /\ \E out \in HandshakeOutcomes(exchange) :
            IF out = "refused"
            THEN /\ call' = [Called("connect") EXCEPT !.res = out]
                 /\ UNCHANGED <<cWs, conns, up, authed>>
            ELSE /\ conns < MaxConns
                 /\ conns' = conns + 1
                 /\ cWs' = conns + 1
                 /\ up' = (out \notin {"send_failed", "recv_failed"})
                 /\ authed' = (out = "ok")
                 /\ call' = [Called("connect") EXCEPT
                               !.res = out, !.opened = 1,
                               !.sends = IF exchange = "bybit" /\ out # "send_failed"
                                         THEN 1 ELSE 0]
  /\ UNCHANGED <<reqVars, snapVars, spc, reqs, msgs, late>>

\* connect(): nothing when self._ws is set; else create_connection, settimeout
\* and (Bybit) the auth handshake.  self._ws is assigned as soon as
\* create_connection returns, and nothing resets it when the handshake raises.
Sess_Connect ==
  /\ spc = "idle"
  /\ IF cWs # 0
     THEN /\ call' = [Called("connect") EXCEPT !.res = "noop"]
          /\ UNCHANGED <<cWs, conns, up, authed>>
     ELSE \E out \in HandshakeOutcomes(exchange) :
            IF out = "refused"
            THEN /\ call' = [Called("connect") EXCEPT !.res = out]
                 /\ UNCHANGED <<cWs, conns, up, authed>>
            ELSE /\ conns < MaxConns
                 /\ conns' = conns + 1
                 /\ cWs' = conns + 1
                 /\ up' = (out \notin {"send_failed", "recv_failed"})
                 /\ authed' = (out = "ok")
                 /\ call' = [Called("connect") EXCEPT
                               !.res = out, !.opened = 1,
                               !.sends = IF exchange = "bybit" /\ out # "send_failed"
                                         THEN 1 ELSE 0]
  /\ UNCHANGED <<reqVars, snapVars, spc, reqs, msgs, late>>

\* "self._ws = None" after the try block instead of in "finally".
Sess_Close_NoFinally ==
  /\ spc = "idle"
  /\ IF cWs = 0
     THEN /\ call' = [Called("close") EXCEPT !.res = "noop"]
          /\ UNCHANGED <<cWs, up, authed>>
     ELSE \E raised \in BOOLEAN :
            /\ call' = [Called("close") EXCEPT !.res = IF raised THEN "close_raised"
                                                       ELSE "closed"]
            /\ cWs' = IF raised THEN cWs ELSE 0
            /\ up' = FALSE
            /\ authed' = FALSE
  /\ UNCHANGED <<reqVars, snapVars, conns, spc, reqs, msgs, late>>

\* close(): nothing when self._ws is None; else self._ws.close(), which may
\* raise, and "finally: self._ws = None".
Sess_Close ==
  /\ spc = "idle"
  /\ IF cWs = 0
     THEN /\ call' = [Called("close") EXCEPT !.res = "noop"]
          /\ UNCHANGED <<cWs, up, authed>>
     ELSE \E raised \in BOOLEAN :
            /\ call' = [Called("close") EXCEPT !.res = IF raised THEN "close_raised"
                                                       ELSE "closed"]
            /\ cWs' = 0
            /\ up' = FALSE
            /\ authed' = FALSE
  /\ UNCHANGED <<reqVars, snapVars, conns, spc, reqs, msgs, late>>

\* The test "if self._ws is None: raise" left out: the send goes ahead on
\* whatever transport there was last.
Sess_Request_NoCheck ==
  /\ spc = "idle"
  /\ reqs < MaxReqs
  /\ \E sent \in BOOLEAN :
            IF sent
            THEN /\ reqs' = reqs + 1
                 /\ msgs' = 0
                 /\ late' = FALSE
                 /\ spc' = "wait"
                 /\ call' = [Called("request") EXCEPT !.res = "pending", !.sends = 1]
                 /\ UNCHANGED up
            ELSE /\ up' = FALSE
                 /\ call' = [Called("request") EXCEPT !.res = "transport"]
                 /\ UNCHANGED <<reqs, msgs, late, spc>>
  /\ UNCHANGED <<reqVars, snapVars, cWs, conns, authed>>

\* _request up to the receive loop (place_market_order and place_limit_order
\* only build the arguments and call it): RuntimeError when self._ws is None;
\* else settimeout, one send of the request, which the transport may refuse,
\* and the deadline.
Sess_Request ==
  /\ spc = "idle"
  /\ reqs < MaxReqs
  /\ IF cWs = 0
     THEN /\ call' = [Called("request") EXCEPT !.res = "not_connected"]
          /\ UNCHANGED <<up, reqs, msgs, late, spc>>
     ELSE \E sent \in {s \in BOOLEAN : s => up} :
            IF sent
            THEN /\ reqs' = reqs + 1
                 /\ msgs' = 0
                 /\ late' = FALSE
                 /\ spc' = "wait"
                 /\ call' = [Called("request") EXCEPT !.res = "pending", !.sends = 1]
                 /\ UNCHANGED up
            ELSE /\ up' = FALSE
                 /\ call' = [Called("request") EXCEPT !.res = "transport"]
                 /\ UNCHANGED <<reqs, msgs, late, spc>>
  /\ UNCHANGED <<reqVars, snapVars, cWs, conns, authed>>

\* Any message with a status ends the wait, whatever its id.
Handle_AnyId(ex, m, id) ==
  IF ~m.json THEN "continue"
  ELSE IF ~m.ok THEN "rejected"
  ELSE "result"

\* The body of the receive loop after recv(): json.loads (a text that is no
\* JSON: continue), the comparison of the id with the request's, the status.
Handle(ex, m, id) ==
  IF ~m.json THEN "continue"
  ELSE IF m.id # id THEN "continue"
  ELSE IF ~m.ok THEN "rejected"
  ELSE "result"

\* What recv() does: it returns a message, it raises because the connection
\* is gone ("closed"), or it raises because nothing arrived within the socket
\* timeout ("silent"; settimeout(30) equals the deadline of the request).
RecvEvents ==
  (IF up THEN {"silent"} ELSE {}) \cup {"closed"}
    \cup (IF up /\ msgs < MaxMsgs THEN {"message"} ELSE {})

\* A failed recv answered with a second send of the request.
Sess_Wait_Resend ==
  /\ spc = "wait"
  /\ IF late
     THEN /\ call' = [call EXCEPT !.res = "timeout"]
          /\ spc' = "idle"
          /\ UNCHANGED <<up, msgs, late>>
     ELSE \E ev \in RecvEvents :
            CASE ev = "message" ->
                   \E m \in Messages, t \in BOOLEAN :
                     /\ msgs' = msgs + 1
                     /\ late' = t
                     /\ call' = [call EXCEPT !.msg = m,
                                             !.res = IF Handle(exchange, m, reqs) = "continue"
                                                     THEN "pending"
                                                     ELSE Handle(exchange, m, reqs)]
                     /\ spc' = IF Handle(exchange, m, reqs) = "continue" THEN "wait" ELSE "idle"
                     /\ UNCHANGED up
              [] ev = "closed" ->
                   /\ call' = [call EXCEPT !.sends = Bump(@)]
                   /\ UNCHANGED <<up, msgs, late, spc>>
              [] ev = "silent" ->
                   /\ call' = [call EXCEPT !.res = "recv_timeout"]
                   /\ late' = TRUE
                   /\ spc' = "idle"
                   /\ UNCHANGED <<up, msgs>>
  /\ UNCHANGED <<reqVars, snapVars, cWs, conns, authed, reqs>>

\* One turn of "while time.time() < deadline": TimeoutError when the deadline
\* has passed; else recv() and the handling of what it returns.  Time passes
\* while recv() blocks.  An exception of recv() propagates.
Sess_Wait ==
  /\ spc = "wait"
  /\ IF late
     THEN /\ call' = [call EXCEPT !.res = "timeout"]
          /\ spc' = "idle"
          /\ UNCHANGED <<up, msgs, late>>
     ELSE \E ev \in RecvEvents :
            CASE ev = "message" ->
                   \E m \in Messages, t \in BOOLEAN :
                     /\ msgs' = msgs + 1
                     /\ late' = t
                     /\ call' = [call EXCEPT !.msg = m,
                                             !.res = IF Handle(exchange, m, reqs) = "continue"
                                                     THEN "pending"
                                                     ELSE Handle(exchange, m, reqs)]
                     /\ spc' = IF Handle(exchange, m, reqs) = "continue" THEN "wait" ELSE "idle"
                     /\ UNCHANGED up
              [] ev = "closed" ->
                   /\ call' = [call EXCEPT !.res = "transport"]
                   /\ up' = FALSE
                   /\ spc' = "idle"
                   /\ UNCHANGED <<msgs, late>>
              [] ev = "silent" ->
                   /\ call' = [call EXCEPT !.res = "recv_timeout"]
                   /\ late' = TRUE
                   /\ spc' = "idle"
                   /\ UNCHANGED <<up, msgs>>
  /\ UNCHANGED <<reqVars, snapVars, cWs, conns, authed, reqs>>

\* ------------------------------------------------------------ specification
ReqStart(pc0) ==
  /\ exchange \in {"binance", "bybit"}
  /\ \E pre \in {NoOrder} \cup PreOrders :
       IF pre = NoOrder
       THEN /\ shmExists = FALSE
            /\ version = 0
            /\ size = 0
            /\ payload = ZeroFill
            /\ sizeBy = 0
            /\ payloadBy = 0
            /\ wId = 0
            /\ lastWritten = NoOrder
            /\ quiet = "no"
            /\ writes = 0
       ELSE /\ shmExists = TRUE
            /\ version = 2
            /\ size = Len(packb(pre))
            /\ payload = StoreBytes(ZeroFill, packb(pre))
            /\ sizeBy = 1
            /\ payloadBy = 1
            /\ wId = 1
            /\ lastWritten = pre
            /\ quiet = "yes"
            /\ writes = 1
  /\ wpc = "idle"
  /\ wOrder = NoOrder
  /\ wRaised = FALSE
  /\ rpc = pc0
  /\ after = "connect"
  /\ v1 = 0
  /\ rsize = 0
  /\ data = <<>>
  /\ order = NoOrder
  /\ src = 0
  /\ ws = "none"
  /\ alive = FALSE
  /\ err = NoErr
  /\ clients = 0
  /\ old = 0
  /\ wiped = NoWipe
  /\ sizeFrom = 0
  /\ dataFrom = 0
  /\ storeSinceV1 = FALSE
  /\ quietAtV1 = FALSE
  /\ cleared = FALSE
  /\ rd = NoRead
  /\ clears = -1
  /\ storeSinceClear = FALSE
  /\ fresh = FALSE
  /\ placed = NoOrder
  /\ sendCount = [w |-> 0, n |-> 0]
  /\ dropped = 0

\* run_order_reader is about to open the region; the submitter is idle.
ReqInit == ReqStart("open")

\* The snapshot channel as Orderbook.__init__ creates it (zero-filled), with
\* self._version = 0.
SnapInit ==
  /\ sVersion = 0
  /\ sSize = 0
  /\ sPayload = ZeroFill
  /\ sSizeBy = NoBy
  /\ sPayloadBy = NoBy
  /\ ppc = "watch"
  /\ pVersion = 0
  /\ pSnap = NoSnap
  /\ snaps = 0
  /\ rdr = [r \in Readers |-> IdleReader]
  /\ got = [r \in Readers |-> NoGot]

\* No producer and no strategy run beside the order runner.
SnapOff ==
  /\ sVersion = 0
  /\ sSize = 0
  /\ sPayload = ZeroFill
  /\ sSizeBy = NoBy
  /\ sPayloadBy = NoBy
  /\ ppc = "off"
  /\ pVersion = 0
  /\ pSnap = NoSnap
  /\ snaps = 0
  /\ rdr = [r \in Readers |-> [IdleReader EXCEPT !.pc = "off"]]
  /\ got = [r \in Readers |-> NoGot]

\* A session as __init__ leaves it: self._ws = None.
SessInit ==
  /\ cWs = 0
  /\ conns = 0
  /\ up = FALSE
  /\ authed = FALSE
  /\ spc = "idle"
  /\ reqs = 0
  /\ msgs = 0
  /\ late = FALSE
  /\ call = NoCall

\* No session is called on its own beside the order runner.
SessOff ==
  /\ cWs = 0
  /\ conns = 0
  /\ up = FALSE
  /\ authed = FALSE
  /\ spc = "off"
  /\ reqs = 0
  /\ msgs = 0
  /\ late = FALSE
  /\ call = NoCall

Init == ReqInit /\ SnapOff /\ SessOff

Next ==
  \/ \E o \in Orders : W_Call(o)
  \/ W_StoreVersion1
  \/ W_StoreSize
  \/ W_StorePayload
  \/ W_StoreVersion2
  \/ R_OpenShm
  \/ R_ClearVersion
  \/ R_ClearSize
  \/ R_Connect
  \/ R_ReadV1
  \/ R_ReadSize
  \/ R_ReadData
  \/ R_ReadV2
  \/ R_Validate
  \/ R_Place
  \/ R_Except

vars == <<reqVars, snapVars, cliVars>>

Spec == Init /\ [][Next]_vars

\* The snapshot channel alone: one producer, NumReaders read_snapshot callers;
\* no order runner and no submitter run.
ReqOff ==
  /\ ReqStart("off")
  /\ exchange = "binance"
  /\ shmExists = FALSE

SnapNext ==
  \/ \E s \in Snapshots : P_Watch(s)
  \/ P_StoreVersionOdd
  \/ P_StoreSize
  \/ P_StorePayload
  \/ P_StoreVersionEven
  \/ \E r \in Readers : S_ReadV1(r)
  \/ \E r \in Readers : S_ReadSize(r)
  \/ \E r \in Readers : S_ReadData(r)
  \/ \E r \in Readers : S_ReadV2(r)

SnapStart == ReqOff /\ SnapInit /\ SessOff

SnapSpec == SnapStart /\ [][SnapNext]_vars

\* One session of either client, called in any order by one thread; no order
\* runner, submitter, producer or strategy runs.
SessNext ==
  \/ Sess_Connect
  \/ Sess_Close
  \/ Sess_Request
  \/ Sess_Wait

SessStart ==
  /\ ReqStart("off")
  /\ shmExists = FALSE
  /\ SnapOff
  /\ SessInit

SessSpec == SessStart /\ [][SessNext]_vars

\* The Binance runner with a submitter that makes up to MaxLostWrites calls,
\* with records of one serialized size: a valid one and one of a type the
\* runner does not forward.
LostOrders == {MarketOrder, StopOrder}

LostInit == Init /\ exchange = "binance"

LostNext ==
  \/ \E o \in LostOrders : W_CallUpTo(MaxLostWrites, o)
  \/ W_StoreVersion1
  \/ W_StoreSize
  \/ W_StorePayload
  \/ W_StoreVersion2
  \/ R_OpenShm
  \/ R_ClearVersion
  \/ R_ClearSize
  \/ R_Connect
  \/ R_ReadV1
  \/ R_ReadSize
  \/ R_ReadData
  \/ R_ReadV2
  \/ R_Validate
  \/ R_Place
  \/ R_Except

LostSpec == LostInit /\ [][LostNext]_vars

\* The runner's steps, which its loop takes one after the other without
\* waiting for anything but the bounded waits of the session.
Runner ==
  \/ R_OpenShm
  \/ R_ClearVersion
  \/ R_ClearSize
  \/ R_Connect
  \/ R_ReadV1
  \/ R_ReadSize
  \/ R_ReadData
  \/ R_ReadV2
  \/ R_Validate
  \/ R_Place
  \/ R_Except

\* The Bybit runner, which keeps running.
BybitInit == Init /\ exchange = "bybit"

BybitFairSpec == BybitInit /\ [][Next]_vars /\ WF_vars(Runner)

\* The steps of one read_snapshot caller, which runs on: StrategyBase.run calls
\* read_snapshot in a loop and waits for nothing.
Reader(r) ==
  \/ S_ReadV1(r)
  \/ S_ReadSize(r)
  \/ S_ReadData(r)
  \/ S_ReadV2(r)

\* The callers keep running; the producer may stop at any point.
SnapFairSpec == SnapStart /\ [][SnapNext]_vars /\ \A r \in Readers : WF_vars(Reader(r))

\* ------------------------------------------------------------------ claims
\* C1: every record _read_order_from_shm returns has the payload_size and the
\* payload bytes of one single write_order_request call, never the size of one
\* write with the bytes of another write or with stale bytes.
C1_OneWritePerRecord ==
  rd.res = "record" => (rd.sizeFrom # 0 /\ rd.sizeFrom = rd.dataFrom)

\* C2: a read whose v1 load and v2 load have a store of write_order_request
\* between them returns None.
C2_TornReadReturnsNone ==
  rd.torn => rd.res \in {"no", "none"}

\* C3: every snapshot read_snapshot returns is the payload_size and the payload
\* of exactly one producer write, and is the snapshot that write serialized.
C3_SnapshotOfOneWrite ==
  \A r \in Readers :
    got[r].res = "snapshot" =>
      /\ got[r].dataFrom.id # 0
      /\ got[r].sizeFrom = got[r].dataFrom
      /\ got[r].snap = got[r].dataFrom.snap

\* A caller holds the snapshot of the second producer write, which is shorter
\* than the first: bytes of the first write still lie behind it in the region.
C3_Witness ==
  \E r \in Readers :
    /\ got[r].res = "snapshot"
    /\ got[r].dataFrom.id = 2
    /\ sSize < PAYLOAD_MAX
    /\ sPayload[PAYLOAD_MAX] # 0

\* C4: each completed write_order_request causes at most one order message to
\* the exchange, whatever the outcome of the submit.
C4_AtMostOnce ==
  sendCount.n <= 1

InAttempt == rpc \in {"place", "except", "clear_version", "clear_size"}

\* C5 as stated: in the Binance runner _clear_order_shm runs exactly once per
\* validated record, on every outcome, so version and payload_size are both 0
\* when the runner is about to poll again or has terminated.
C5_ClearedBeforePoll ==
  (exchange = "binance" /\ clears >= 0) =>
    /\ clears = (IF InAttempt THEN 0 ELSE 1)
    /\ fresh => (version = 0 /\ size = 0)

\* C5 amended: in the Binance runner _clear_order_shm runs exactly once per
\* validated record, on every outcome, so version and payload_size are both 0
\* when the runner is about to poll again or has terminated, unless a store of
\* a concurrent write_order_request landed since that clear began.
C5_ClearOncePerAttempt ==
  (exchange = "binance" /\ clears >= 0) =>
    /\ clears = (IF InAttempt THEN 0 ELSE 1)
    /\ (fresh /\ ~storeSinceClear) => (version = 0 /\ size = 0)

\* A LIMIT record was submitted, the session turned out closed, the reconnect
\* failed and the runner terminated: the record was cleared once on the way.
C5_Witness ==
  /\ exchange = "binance"
  /\ clears = 1
  /\ fresh
  /\ ~storeSinceClear
  /\ rpc = "crashed"
  /\ placed = LimitOrder

\* A LIMIT record without price was cleared once and the runner polls again.
C5_WitnessNoPrice ==
  /\ exchange = "binance"
  /\ clears = 1
  /\ fresh
  /\ lastWritten = LimitNoPrice
  /\ placed = NoOrder
  /\ rpc = "read_v1"

\* A valid MARKET request lies complete in the channel, no write is in
\* progress or will follow, and the Bybit runner is about to poll.
C6_Written ==
  /\ exchange = "bybit"
  /\ quiet = "yes"
  /\ wpc = "idle"
  /\ writes = MaxWrites
  /\ Valid(exchange, lastWritten)
  /\ OrderType(exchange, lastWritten) = "MARKET"
  /\ rpc = "read_v1"

\* C6: in the Bybit runner, after a valid MARKET request has been written and
\* no later write occurs, the runner eventually clears the channel, whether the
\* exchange accepts or rejects the order.
C6_EventuallyCleared ==
  [](C6_Written => <>(version = 0 /\ size = 0))

\* C7: a record that fails validation is cleared from the channel, so a later
\* poll does not read the record of the same write again.
C7_InvalidNotReadAgain ==
  rpc = "got" => src # dropped

HasQuantity(o) == Truthy(Quantity(exchange, o))

\* C8: a record without quantity never reaches place_market_order or
\* place_limit_order, no message is sent for it, and the runner goes on polling.
C8_NoQuantityDropped ==
  [][/\ (rpc = "got" /\ ~HasQuantity(order)) =>
          (rpc' \in {"got", "read_v1"} /\ placed' = placed /\ sendCount' = sendCount)
     /\ placed' # NoOrder => HasQuantity(placed')]_vars

\* The record of the last write had no quantity, the runner has dropped it and
\* polls again; nothing was placed.
C8_Witness ==
  /\ lastWritten = NoQuantity
  /\ dropped = wId
  /\ rpc = "read_v1"
  /\ placed = NoOrder
  /\ ws = "open"

\* C9: a read that runs after write_order_request(R) has completed, with no
\* writer or clear step in between, returns exactly R.  (rd is the read's return
\* value; ~storeSinceV1 says that the channel still is as the read found it.)
C9_RoundTrip ==
  (rd.quiet /\ ~storeSinceV1) => (rd.res = "record" /\ order = lastWritten)

\* A short record came back from a channel that held a longer record before,
\* whose stale bytes still lie behind it.
C9_Witness ==
  /\ rd.quiet
  /\ ~storeSinceV1
  /\ rd.res = "record"
  /\ order = NoQuantity
  /\ payload[5] # 0
  /\ wId >= 2

\* C10: after a _clear_order_shm has completed, every _read_order_from_shm
\* returns None until a write_order_request completes its second version store.
C10_NoneAfterClear ==
  rd.afterClear => rd.res \in {"no", "none"}

\* C11: write_order_request with a record whose serialized size exceeds
\* PAYLOAD_MAX raises and makes no store: version, payload_size and payload stay
\* as they were, and no write in progress ever carries an oversize record.
C11_OversizeRejected ==
  [][/\ (writes' # writes /\ wRaised') =>
          (version' = version /\ size' = size /\ payload' = payload /\ wpc' = "idle")
     /\ (wpc' # "idle") => Len(packb(wOrder')) <= PAYLOAD_MAX]_vars

\* A call with an oversize record has raised while the channel held the
\* complete record of an earlier write, which is still there (version 2).
C11_Witness ==
  /\ wRaised
  /\ wpc = "idle"
  /\ version = 2
  /\ size = Len(packb(lastWritten))
  /\ CopyBytes(payload, size) = packb(lastWritten)

\* The outcomes of connect() in which the handshake failed.
HandshakeFailures == {"send_failed", "recv_failed", "bad_ack", "auth_rejected"}

\* C12: in the Bybit session a connect() that fails in the handshake leaves the
\* session disconnected (self._ws is None), so that no later order call sends
\* anything on a transport the exchange has not authenticated.
C12_FailedHandshakeDisconnects ==
  exchange = "bybit" =>
    /\ (call.op = "connect" /\ call.res \in HandshakeFailures) => cWs = 0
    /\ (call.op = "request" /\ ~call.wasAuthed) =>
         (call.res = "not_connected" /\ call.sends = 0)

\* C13: connect() on a session that is connected and authenticated opens no
\* transport, sends nothing and leaves self._ws as it was.
C13_ConnectIdempotent ==
  (call.op = "connect" /\ call.ws # 0 /\ call.wasAuthed) =>
    /\ call.res = "noop"
    /\ call.opened = 0
    /\ call.sends = 0
    /\ cWs = call.ws
    /\ authed

\* connect() was called on a Bybit session that was connected and
\* authenticated, while a second transport could still have been opened.
C13_Witness ==
  /\ exchange = "bybit"
  /\ call.op = "connect"
  /\ call.ws = 1
  /\ call.wasAuthed
  /\ conns < MaxConns

\* C14: after close() the session is disconnected, also when the transport's
\* close raised; close() on a disconnected session does and raises nothing, so
\* a second close() leaves what the first one left.
C14_CloseDisconnects ==
  call.op = "close" =>
    /\ cWs = 0
    /\ ~up
    /\ ~authed
    /\ call.ws = 0 => call.res = "noop"
    /\ call.opened = 0
    /\ call.sends = 0

\* The transport's close raised inside close(), and the session is disconnected.
C14_Witness ==
  /\ call.op = "close"
  /\ call.res = "close_raised"
  /\ cWs = 0

\* C15: an order call on a disconnected session fails as not connected, sends
\* no message and leaves the session disconnected.
C15_NotConnected ==
  (call.op = "request" /\ call.ws = 0) =>
    /\ call.res = "not_connected"
    /\ call.sends = 0
    /\ cWs = 0
    /\ spc = "idle"

\* An order call was made on a session that had been connected and closed.
C15_Witness ==
  /\ call.op = "request"
  /\ call.ws = 0
  /\ call.res = "not_connected"
  /\ conns >= 1

Matches(m) == ~m.none /\ m.json /\ m.id = reqs

\* C16: _request returns a result only on a message with the id of the request
\* and a success status, fails as rejected only on a message with that id and
\* another status, and goes on waiting after every other message.
C16_OnlyMatchingIdEndsWait ==
  call.op = "request" =>
    /\ call.res = "result" => (Matches(call.msg) /\ call.msg.ok)
    /\ call.res = "rejected" => (Matches(call.msg) /\ ~call.msg.ok)
    /\ call.res = "pending" => ~Matches(call.msg)

\* The second request returned its result on the second message to arrive; the
\* first one did not end the wait.
C16_Witness ==
  /\ call.op = "request"
  /\ call.res = "result"
  /\ reqs = 2
  /\ msgs = 2

\* C17: a _request on a connected session ends with a result, order rejected,
\* timeout or a transport error; when no message with the id of the request
\* arrives while the transport stays usable, it ends with the timeout error.
C17_EndsWithTimeout ==
  (call.op = "request" /\ call.ws # 0 /\ spc = "idle") =>
    /\ call.res \in {"result", "rejected", "timeout", "transport"}
    /\ (up /\ ~Matches(call.msg)) => call.res = "timeout"

\* C18: a _request in which send or recv fails ends at that step with the
\* transport error: it receives and sends nothing more, opens no transport and
\* leaves self._ws as it was; no _request sends more than one message.
C18_TransportErrorEndsCall ==
  [][/\ call'.op = "request" => call'.sends <= 1
     /\ (call'.op = "request" /\ call'.res = "transport" /\ call' # call) =>
          /\ spc' = "idle"
          /\ cWs' = cWs
          /\ conns' = conns
          /\ msgs' = msgs
          /\ call'.sends = (IF spc = "wait" THEN call.sends ELSE 0)]_vars

\* The connection went away while a _request waited, after a first message
\* had arrived: the call has ended with the transport error.
C18_Witness ==
  /\ call.op = "request"
  /\ call.res = "transport"
  /\ call.sends = 1
  /\ msgs = 1
  /\ spc = "idle"
  /\ cWs # 0

\* C19: the Binance runner forwards a record only over a usable connection:
\* after an attempt that failed with a transport error it has closed the
\* session and connected a new one before it places the next order.
C19_BinanceReconnects ==
  (exchange = "binance" /\ rpc = "place") => (ws = "open" /\ alive)

\* C20: the Bybit runner does not use a transport again for a later record
\* after an attempt on it failed with a transport error.
C20_BybitReconnects ==
  (exchange = "bybit" /\ rpc = "place") => (ws = "open" /\ alive)

\* C21: in the Binance runner an attempt that ended with an exchange rejection
\* or with the request timeout is followed by no close and no new client: the
\* runner keeps its session and goes on to clear and poll.
C21_RejectionKeepsSession ==
  [][(exchange = "binance" /\ rpc = "except" /\ rpc' # "except"
        /\ err.kind \in {"rejected", "timeout"}) =>
        (clients' = clients /\ ws' = ws /\ alive' = alive /\ after' = "poll")]_vars

\* C22: every read_snapshot call completes (returns or raises) by the caller's
\* own steps, whatever the producer does, also when the producer stops between
\* its two version stores.
C22_ReadCompletes ==
  \A r \in Readers : []<>(got[r].res # "no")

\* C23: a channel read that loads a payload_size of 0 or of more than
\* PAYLOAD_MAX reports "not ready": it copies and deserializes no payload and
\* raises nothing (_read_order_from_shm and read_snapshot).
C23_NotReadyOnBadSize ==
  /\ rpc \in {"read_data", "read_v2"} => rsize \in 1..PAYLOAD_MAX
  /\ \A r \in Readers :
       /\ rdr[r].pc \in {"data", "v2"} => rdr[r].size \in 1..PAYLOAD_MAX
       /\ got[r].res # "raise"

\* C24: the first store of a write_order_request makes version one greater
\* than it was (odd), and its last store, when no clear has stored in between,
\* one greater again (even): the version grows from write to write.
C24_VersionIncrements ==
  [][/\ (wpc = "version1" /\ wpc' = "size") =>
          (version' = version + 1 /\ version' % 2 = 1)
     /\ (wpc = "version2" /\ wpc' = "idle" /\ version % 2 = 1) =>
          version' = version + 1]_vars

\* C25: on the request channel version is odd exactly when a
\* write_order_request is between its first and its last version store.
C25_OddIffWriting ==
  (version % 2 = 1) <=> (wpc \in {"size", "payload", "version2"})

\* C26: no order message goes to the exchange for a record without side: every
\* step that sends one sends it for a record that has a side (both runners).
C26_NoSideNotForwarded ==
  [][sendCount' # sendCount => Truthy(Get(placed', "side"))]_vars

\* The record of the newest write_order_request call that passed the size check.
Newest == IF wpc = "idle" THEN lastWritten ELSE wOrder

\* C27: in the Binance runner the record of a write that completed while the
\* runner was between the read of an earlier record and the end of the clear
\* that follows it is never forwarded to the exchange, unless it is written
\* again (a later write, the newest one, carries the same record).
C27_WipedNotForwarded ==
  (wiped.w # 0 /\ sendCount.n > 0 /\ sendCount.w = wiped.w) =>
    (wId > wiped.w /\ Newest = wiped.rec)

\* C28: a record whose write had completed in an already existing region when
\* the runner started is never forwarded to the exchange.
C28_OldRecordDiscarded ==
  sendCount.n > 0 => sendCount.w > old

\* C29: the producer writes nothing for a snapshot whose serialized size
\* exceeds PAYLOAD_MAX: no write in progress carries one, and the step that
\* receives it leaves version (even), payload_size and payload as they were, so
\* that read_snapshot goes on returning the snapshot written before.
C29_OversizeSnapshotSkipped ==
  [][/\ ppc' # "watch" => Len(SnapPack(pSnap')) <= PAYLOAD_MAX
     /\ (snaps' # snaps /\ ppc' = "watch") =>
          /\ sVersion' = sVersion /\ sVersion % 2 = 0 /\ pVersion' = pVersion
          /\ sSize' = sSize /\ sPayload' = sPayload
     /\ \A r \in Readers :
          (got'[r].res = "snapshot" /\ got'[r].at = snaps'
             /\ ppc' = "watch" /\ sPayloadBy'.id < snaps') =>
            (got'[r].snap = sPayloadBy'.snap /\ got'[r].dataFrom = sPayloadBy')]_vars

\* The feed delivered a first snapshot, which was written, and a second one,
\* which was not; a read_snapshot that returned after that returned the first.
C29_Witness ==
  /\ snaps = 2
  /\ ppc = "watch"
  /\ sVersion = 2
  /\ sPayloadBy.id = 1
  /\ \E r \in Readers :
       got[r].res = "snapshot" /\ got[r].at = 2 /\ got[r].dataFrom.id = 1

====
